---- MODULE Spec2Model ----
(***************************************************************************)
(* Words of Plainness editor: the storage / versioning library             *)
(* (src/src/lib/storage.js lines 1-213), the chunk planner of              *)
(* prepareDocument (lines 344-424) and the Editor component's handlers     *)
(* (lines 426-940).                                                        *)
(*                                                                         *)
(* Text is a sequence of one-character strings, so that offsets, indexOf,  *)
(* substring, split and join are computed as the JavaScript does.          *)
(* Offsets in the model are the 0-based JavaScript offsets.                *)
(***************************************************************************)
EXTENDS Integers, Sequences, FiniteSets, TLC

VARIABLES
  localStorage,   \* window.localStorage: key -> stored value, or NoItem
  clock,          \* what Date.now() returns
  lastCall,       \* the last library call observed: arguments, outcome
  content,        \* Editor state: the document
  suggestions,    \* Editor state: the Suggestion Set
  chatHistory,    \* Editor state: the chat log
  isAnalyzing,    \* Editor state: an analysis is running
  error,          \* Editor state: the error shown, or NoError
  analysis,       \* the analyzeContent call in progress, or NoAnalysis
  budget,         \* the word budget of a segment (MAX_WORDS_PER_CHUNK)
  prepare,        \* the prepareDocument call in progress, or NoPrepare
  isPreparing,    \* Editor state: a preparation is running
  timers,         \* per debounced stream: the closure's timeout, the timers set
  effectDeps      \* the content the auto-save effect last ran with

vars ==
  <<localStorage, clock, lastCall, content, suggestions, chatHistory,
    isAnalyzing, error, analysis, budget, prepare, isPreparing, timers,
    effectDeps>>

libVars == <<localStorage, clock, lastCall>>
memVars == <<content, suggestions, chatHistory>>
uiVars == <<isAnalyzing, error, analysis>>
planVars == <<budget, prepare, isPreparing, timers, effectDeps>>

-----------------------------------------------------------------------------
(* Bounds of the model *)

MaxClock == 2       \* Date.now() is explored up to this value
MaxPlanLen == 7     \* longest document handed to the chunk planner
MaxBudget == 2      \* word budgets 1..MaxBudget besides MAX_WORDS_PER_CHUNK
MaxDocLen == 4      \* an accept is explored while the document stays this short
MaxChat == 4        \* the chat log is explored up to this many messages
MaxAnchorLen == 3   \* longest document of the anchoring runs
MaxArray == 2       \* longest array in a model response of the anchoring runs
MaxTime == 2500     \* the auto-save timers are followed up to this time (ms)
MaxResets == 1      \* new documents started while the timers are followed

(* Program constants *)

MAX_VERSIONS == 5
MAX_WORDS_PER_CHUNK == 1500
CHAT_KEEP == 50     \* history.slice(-50)

-----------------------------------------------------------------------------
(* Strings *)

NL == "\n"
SP == " "
Whitespace == {SP, NL}          \* the characters of the model matched by \s

Min(a, b) == IF a < b THEN a ELSE b
Max(a, b) == IF a > b THEN a ELSE b

\* JavaScript s.substring(a, b) with 0-based offsets: negative or too large
\* arguments are clamped, and the two are swapped when a > b.
Substring(s, a, b) ==
  LET ca == Min(Max(a, 0), Len(s))
      cb == Min(Max(b, 0), Len(s))
      lo == Min(ca, cb)
      hi == Max(ca, cb)
  IN  SubSeq(s, lo + 1, hi)

\* s.substring(a)
SubstringFrom(s, a) == Substring(s, a, Len(s))

\* s.slice(-n) of an array, n > 0
SliceLast(s, n) == IF Len(s) <= n THEN s ELSE SubSeq(s, Len(s) - n + 1, Len(s))

RECURSIVE TrimStart(_)
TrimStart(s) ==
  IF s # <<>> /\ Head(s) \in Whitespace THEN TrimStart(Tail(s)) ELSE s

RECURSIVE TrimEnd(_)
TrimEnd(s) ==
  IF s # <<>> /\ s[Len(s)] \in Whitespace
    THEN TrimEnd(SubSeq(s, 1, Len(s) - 1))
    ELSE s

\* s.trim()
Trim(s) == TrimEnd(TrimStart(s))

\* Length of the maximal run of characters of sep that starts at 1-based i.
RECURSIVE RunLen(_, _, _)
RunLen(s, i, sep) ==
  IF i <= Len(s) /\ s[i] \in sep THEN 1 + RunLen(s, i + 1, sep) ELSE 0

\* s.split(re) for a regular expression re that matches the maximal runs, of
\* at least minRun characters, of characters of sep: /\s+/ is (Whitespace, 1)
\* and /\n\n+/ is ({NL}, 2).  cur is the piece being collected.
RECURSIVE SplitFrom(_, _, _, _, _)
SplitFrom(s, i, cur, sep, minRun) ==
  IF i > Len(s) THEN <<cur>>
  ELSE IF s[i] \in sep
    THEN LET r == RunLen(s, i, sep)
         IN  IF r >= minRun
               THEN <<cur>> \o SplitFrom(s, i + r, <<>>, sep, minRun)
               ELSE SplitFrom(s, i + r, cur \o SubSeq(s, i, i + r - 1), sep, minRun)
    ELSE SplitFrom(s, i + 1, Append(cur, s[i]), sep, minRun)

SplitWhitespace(s) == SplitFrom(s, 1, <<>>, Whitespace, 1)

\* pieces.join(sep)
RECURSIVE Join(_, _)
Join(pieces, sep) ==
  IF pieces = <<>> THEN <<>>
  ELSE IF Len(pieces) = 1 THEN pieces[1]
  ELSE pieces[1] \o sep \o Join(Tail(pieces), sep)

\* content.trim().split(/\s+/).filter(w => w.length > 0).length; arr.filter
\* is SelectSeq.
NonEmpty(w) == Len(w) > 0
WordCount(text) == Len(SelectSeq(SplitWhitespace(Trim(text)), NonEmpty))

-----------------------------------------------------------------------------
(* localStorage *)

NoItem == [tag |-> "none"]                  \* getItem(key) = null
Item(v) == [tag |-> "item", value |-> v]

STORAGE_KEYS == {"CONTENT", "CHAT_HISTORY", "PREFERENCES", "LAST_SAVED"}
VERSION_KEY == "VERSIONS"
AllKeys == STORAGE_KEYS \cup {VERSION_KEY}

EmptyStorage == [k \in AllKeys |-> NoItem]

\* localStorage.setItem(key, value); the caller decides whether it throws.
SetItem(ls, key, value) == [ls EXCEPT ![key] = Item(value)]

\* Results of a library call: the storage it leaves and what it returns.
Outcome(ls, ret) == [ls |-> ls, ret |-> ret]
RetTrue == [tag |-> "true"]
RetFalse == [tag |-> "false"]
RetNull == [tag |-> "null"]
RetValue(v) == [tag |-> "value", value |-> v]

\* A catch block that reports success.
saveContent_ReportsSuccess(ls, text, now, failAt) ==
  IF failAt = 1 THEN Outcome(ls, RetTrue)
  ELSE LET ls1 == SetItem(ls, "CONTENT", text)
       IN  IF failAt = 2 THEN Outcome(ls1, RetTrue)
           ELSE Outcome(SetItem(ls1, "LAST_SAVED", now), RetTrue)

\* storage.saveContent(content).  failAt = 0: no setItem throws; failAt = n:
\* the n-th setItem of the call throws (QuotaExceededError and the like).
saveContent(ls, text, now, failAt) ==
  IF failAt = 1 THEN Outcome(ls, RetFalse)
  ELSE LET ls1 == SetItem(ls, "CONTENT", text)
       IN  IF failAt = 2 THEN Outcome(ls1, RetFalse)
           ELSE Outcome(SetItem(ls1, "LAST_SAVED", now), RetTrue)

\* storage.loadContent(): getItem(CONTENT) || null, so "" loads as null.
loadContent(ls) ==
  IF ls["CONTENT"].tag = "none" \/ ls["CONTENT"].value = <<>>
    THEN RetNull
    ELSE RetValue(ls["CONTENT"].value)

\* storage.saveChatHistory(history)
saveChatHistory(ls, history, failAt) ==
  IF failAt = 1 THEN Outcome(ls, RetFalse)
  ELSE Outcome(SetItem(ls, "CHAT_HISTORY", SliceLast(history, CHAT_KEEP)), RetTrue)

\* storage.savePreferences(prefs)
savePreferences(ls, prefs, failAt) ==
  IF failAt = 1 THEN Outcome(ls, RetFalse)
  ELSE Outcome(SetItem(ls, "PREFERENCES", prefs), RetTrue)

-----------------------------------------------------------------------------
(* versioning *)

\* versioning.getVersions(): the stored array, [] when the key is absent.
getVersions(ls) ==
  IF ls[VERSION_KEY].tag = "none" THEN <<>> ELSE ls[VERSION_KEY].value

\* label || `Version ${versions.length + 1}`; a label is a text, '' is <<>>
AutoLabel(n) == <<"Version", n>>
VersionLabel(label, versions) ==
  IF label = <<>> THEN AutoLabel(Len(versions) + 1) ELSE label

NewVersion(text, label, versions, now) ==
  [id |-> now,
   content |-> text,
   label |-> VersionLabel(label, versions),
   timestamp |-> now,
   wordCount |-> WordCount(text)]

\* The trimming loop with >= MAX_VERSIONS + 2 in the place of > MAX_VERSIONS.
RECURSIVE PopWhileOver_OffByOne(_)
PopWhileOver_OffByOne(versions) ==
  IF Len(versions) > MAX_VERSIONS + 1
    THEN PopWhileOver_OffByOne(SubSeq(versions, 1, Len(versions) - 1))
    ELSE versions

\* while (versions.length > MAX_VERSIONS) versions.pop();
RECURSIVE PopWhileOver(_)
PopWhileOver(versions) ==
  IF Len(versions) > MAX_VERSIONS
    THEN PopWhileOver(SubSeq(versions, 1, Len(versions) - 1))
    ELSE versions

\* push in the place of unshift
InsertVersion_Push(versions, newVersion) ==
  PopWhileOver(versions \o <<newVersion>>)

\* versions.unshift(newVersion) and the trimming loop
InsertVersion(versions, newVersion) == PopWhileOver(<<newVersion>> \o versions)

\* versioning.saveVersion(content, label)
saveVersion(ls, text, label, now, failAt) ==
  LET versions == getVersions(ls)
      newVersion == NewVersion(text, label, versions, now)
      kept == InsertVersion(versions, newVersion)
  IN  IF failAt = 1 THEN Outcome(ls, RetNull)
      ELSE Outcome(SetItem(ls, VERSION_KEY, kept), RetValue(newVersion))

\* versions.find(v => v.id === id): the first match
RECURSIVE FindVersion(_, _)
FindVersion(versions, id) ==
  IF versions = <<>> THEN RetNull
  ELSE IF Head(versions).id = id THEN RetValue(Head(versions))
  ELSE FindVersion(Tail(versions), id)

\* A restoreVersion that takes the restored version out of the ledger.
restoreVersion_Consumes(ls, id) ==
  LET found == FindVersion(getVersions(ls), id)
      OtherId(v) == v.id # id
  IN  IF found.tag = "value"
        THEN Outcome(SetItem(ls, VERSION_KEY, SelectSeq(getVersions(ls), OtherId)),
                     RetValue(found.value.content))
        ELSE Outcome(ls, RetNull)

\* versioning.restoreVersion(id)
restoreVersion(ls, id) ==
  LET found == FindVersion(getVersions(ls), id)
  IN  IF found.tag = "value"
        THEN Outcome(ls, RetValue(found.value.content))
        ELSE Outcome(ls, RetNull)

\* A deleteVersion that also removes the versions saved before the given one
deleteVersion_AndOlder(ls, id, failAt) ==
  LET Newer(v) == v.id > id
      versions == SelectSeq(getVersions(ls), Newer)
  IN  IF failAt = 1 THEN Outcome(ls, RetFalse)
      ELSE Outcome(SetItem(ls, VERSION_KEY, versions), RetTrue)

\* versioning.deleteVersion(id)
deleteVersion(ls, id, failAt) ==
  LET OtherId(v) == v.id # id
      versions == SelectSeq(getVersions(ls), OtherId)
  IN  IF failAt = 1 THEN Outcome(ls, RetFalse)
      ELSE Outcome(SetItem(ls, VERSION_KEY, versions), RetTrue)

-----------------------------------------------------------------------------
(* The Editor component: state, text-completion service, analysis *)

\* The placeholder text of a new document: one text that is not blank and
\* that UserDocs does not hold.
SAMPLE_TEXT == <<"s">>

\* A chat message is its role and what it reports; the wording is left out.
Message(role, kind) == [role |-> role, kind |-> kind]
WELCOME_MESSAGE == Message("assistant", "welcome")

NoError == <<>>
NoAnalysis == [status |-> "none"]

\* !content.trim()
IsBlank(text) == Trim(text) = <<>>

\* text.indexOf(pat): the 0-based offset of the first occurrence, or -1
RECURSIVE IndexOfFrom(_, _, _)
IndexOfFrom(text, pat, i) ==
  IF i + Len(pat) > Len(text) THEN -1
  ELSE IF SubSeq(text, i + 1, i + Len(pat)) = pat THEN i
  ELSE IndexOfFrom(text, pat, i + 1)

\* text.lastIndexOf(pat) in the place of text.indexOf(pat)
IndexOf_LastOccurrence(text, pat) ==
  LET hits == {i \in 0..(Len(text) - Len(pat)) :
                 SubSeq(text, i + 1, i + Len(pat)) = pat}
  IN  IF hits = {} THEN -1 ELSE CHOOSE i \in hits : \A j \in hits : j <= i

IndexOf(text, pat) == IndexOfFrom(text, pat, 0)

\* The text of a model response is a sequence of tokens: a stretch of prose
\* without brackets, '[', ']', or one serialized suggestion object.  mode and
\* reason are copied into the suggestion and read by no handler: left out.
Prose == [t |-> "prose"]
Open == [t |-> "["]
Close == [t |-> "]"]
Element(original, suggestion) ==
  [t |-> "element", original |-> original, suggestion |-> suggestion]

\* response.indexOf('[')
RECURSIVE IndexOfToken(_, _, _)
IndexOfToken(response, t, i) ==
  IF i >= Len(response) THEN -1
  ELSE IF response[i + 1].t = t THEN i
  ELSE IndexOfToken(response, t, i + 1)

\* response.lastIndexOf(']')
RECURSIVE LastIndexOfToken(_, _, _)
LastIndexOfToken(response, t, i) ==
  IF i < 0 THEN -1
  ELSE IF response[i + 1].t = t THEN i
  ELSE LastIndexOfToken(response, t, i - 1)

Thrown(message) == [tag |-> "thrown", message |-> message]
Parsed(value) == [tag |-> "parsed", value |-> value]

\* JSON.parse(jsonString) of a token sequence: an array literal is '[', then
\* suggestion objects only, then ']'.  (Responses with nested brackets are
\* not among the replies of the model.)
JSONParse(jsonString) ==
  IF /\ Len(jsonString) >= 2
     /\ jsonString[1].t = "["
     /\ jsonString[Len(jsonString)].t = "]"
     /\ \A k \in 2..(Len(jsonString) - 1) : jsonString[k].t = "element"
    THEN Parsed(SubSeq(jsonString, 2, Len(jsonString) - 1))
    ELSE Thrown("JSON parse failed")

\* analyzeContent: from the response text to parsedSuggestions, or the throw
ExtractSuggestions(response) ==
  LET startBracket == IndexOfToken(response, "[", 0)
      endBracket == LastIndexOfToken(response, "]", Len(response) - 1)
  IN  IF startBracket = -1 \/ endBracket = -1
        THEN Thrown("No JSON array found")
        ELSE JSONParse(Substring(response, startBracket, endBracket + 1))

\* callClaudeAPI: the response text, or the throw on a non-ok status
CallResult(reply) ==
  IF reply.ok THEN ExtractSuggestions(reply.text) ELSE Thrown("API error")

Suggestion(idx, s, start) ==
  [id |-> idx + 1, original |-> s.original, suggestion |-> s.suggestion,
   start |-> start, end |-> start + Len(s.original)]

\* parsedSuggestions.map((s, idx) => ...).filter(s => s !== null), with
\* content the document the handler was created with
RECURSIVE ProcessFrom(_, _, _)
ProcessFrom(parsedSuggestions, idx, text) ==
  IF idx >= Len(parsedSuggestions) THEN <<>>
  ELSE LET s == parsedSuggestions[idx + 1]
           start == IndexOf(text, s.original)
       IN  (IF start = -1 THEN <<>> ELSE <<Suggestion(idx, s, start)>>)
             \o ProcessFrom(parsedSuggestions, idx + 1, text)

ProcessSuggestions(parsedSuggestions, text) ==
  ProcessFrom(parsedSuggestions, 0, text)

\* A splice that inserts the replacement and leaves the original in place
Splice_KeepsOriginal(text, s) ==
  Substring(text, 0, s.start) \o s.suggestion \o SubstringFrom(text, s.start)

\* content.substring(0, start) + suggestion + content.substring(end)
Splice(text, s) ==
  Substring(text, 0, s.start) \o s.suggestion \o SubstringFrom(text, s.end)

\* A filter that also drops the suggestions listed after the given one
WithoutId_AndLater(list, id) ==
  LET Earlier(s) == s.id < id IN SelectSeq(list, Earlier)

\* prev.filter(s => s.id !== suggestion.id)
WithoutId(list, id) ==
  LET OtherId(s) == s.id # id IN SelectSeq(list, OtherId)

-----------------------------------------------------------------------------
(* prepareDocument: the chunk planner *)

BlankLine == <<NL, NL>>                       \* '\n\n'

\* text.split(/\n\n+/)
SplitParagraphs(text) == SplitFrom(text, 1, <<>>, {NL}, 2)

\* para.trim().split(/\s+/).length: an empty paragraph counts one word.
ParaWords(para) == Len(SplitWhitespace(Trim(para)))

\* The grouping loop with the last chunk left out: the closing
\* if (currentChunk.length > 0) chunks.push(...) forgotten.
RECURSIVE GroupParagraphs_DropsLast(_, _, _, _, _)
GroupParagraphs_DropsLast(paragraphs, currentChunk, currentWordCount, chunks, W) ==
  IF paragraphs = <<>> THEN chunks
  ELSE LET para == Head(paragraphs)
           paraWords == ParaWords(para)
       IN  IF currentWordCount + paraWords > W /\ Len(currentChunk) > 0
             THEN GroupParagraphs_DropsLast(Tail(paragraphs), <<para>>, paraWords,
                    Append(chunks, Join(currentChunk, BlankLine)), W)
             ELSE GroupParagraphs_DropsLast(Tail(paragraphs),
                    Append(currentChunk, para), currentWordCount + paraWords,
                    chunks, W)

\* The grouping loop that starts a new chunk without the paragraph that
\* overflowed the budget: currentChunk = [] in the place of [para].
RECURSIVE GroupParagraphs_LosesOverflow(_, _, _, _, _)
GroupParagraphs_LosesOverflow(paragraphs, currentChunk, currentWordCount, chunks, W) ==
  IF paragraphs = <<>>
    THEN IF Len(currentChunk) > 0
           THEN Append(chunks, Join(currentChunk, BlankLine))
           ELSE chunks
  ELSE LET para == Head(paragraphs)
           paraWords == ParaWords(para)
       IN  IF currentWordCount + paraWords > W /\ Len(currentChunk) > 0
             THEN GroupParagraphs_LosesOverflow(Tail(paragraphs), <<>>, 0,
                    Append(chunks, Join(currentChunk, BlankLine)), W)
             ELSE GroupParagraphs_LosesOverflow(Tail(paragraphs),
                    Append(currentChunk, para), currentWordCount + paraWords,
                    chunks, W)

\* The grouping loop testing the count before the paragraph is added:
\* currentWordCount > MAX_WORDS_PER_CHUNK
RECURSIVE GroupParagraphs_TestsFirst(_, _, _, _, _)
GroupParagraphs_TestsFirst(paragraphs, currentChunk, currentWordCount, chunks, W) ==
  IF paragraphs = <<>>
    THEN IF Len(currentChunk) > 0
           THEN Append(chunks, Join(currentChunk, BlankLine))
           ELSE chunks
  ELSE LET para == Head(paragraphs)
           paraWords == ParaWords(para)
       IN  IF currentWordCount > W /\ Len(currentChunk) > 0
             THEN GroupParagraphs_TestsFirst(Tail(paragraphs), <<para>>,
                    paraWords, Append(chunks, Join(currentChunk, BlankLine)), W)
             ELSE GroupParagraphs_TestsFirst(Tail(paragraphs),
                    Append(currentChunk, para), currentWordCount + paraWords,
                    chunks, W)

\* for (const para of paragraphs) { ... } and the push that follows the loop
RECURSIVE GroupParagraphs(_, _, _, _, _)
GroupParagraphs(paragraphs, currentChunk, currentWordCount, chunks, W) ==
  IF paragraphs = <<>>
    THEN IF Len(currentChunk) > 0
           THEN Append(chunks, Join(currentChunk, BlankLine))
           ELSE chunks
  ELSE LET para == Head(paragraphs)
           paraWords == ParaWords(para)
       IN  IF currentWordCount + paraWords > W /\ Len(currentChunk) > 0
             THEN GroupParagraphs(Tail(paragraphs), <<para>>, paraWords,
                    Append(chunks, Join(currentChunk, BlankLine)), W)
             ELSE GroupParagraphs(Tail(paragraphs), Append(currentChunk, para),
                    currentWordCount + paraWords, chunks, W)

\* The chunks prepareDocument(text) works on, under word budget W.
PlanChunks(text, W) == GroupParagraphs(SplitParagraphs(text), <<>>, 0, <<>>, W)

\* A prepareDocument call: the text it was given, its chunks, the index i of
\* the chunk whose response it awaits and the processedChunks so far.
NoPrepare == [status |-> "none"]
\* The body of the request for section i (0-based): the whole text when
\* there is one chunk, chunks[i] otherwise.
RequestBody(text, chunks, i) ==
  IF Len(chunks) = 1 THEN text ELSE chunks[i + 1]

\* sent and received are the requests issued and the responses delivered so
\* far, in the order of the fetch calls; reply is the response not yet read.
\* (Without a chunk the loop would not run and nothing would be sent.)
StartPrepare(text, W) ==
  LET chunks == PlanChunks(text, W)
  IN  [status |-> "waiting", text |-> text, chunks |-> chunks,
       i |-> 0, processedChunks |-> <<>>,
       sent |-> (IF chunks = <<>> THEN <<>>
                 ELSE <<RequestBody(text, chunks, 0)>>),
       received |-> <<>>,
       reply |-> [ok |-> FALSE, text |-> <<>>]]

\* onProgress: 'Processing document...' or `Processing section i+1 of n...`
ProgressMessage(chunks, i) ==
  IF Len(chunks) = 1
    THEN [role |-> "assistant", kind |-> "Processing document"]
    ELSE [role |-> "assistant", kind |-> "Processing section",
          section |-> i + 1, of |-> Len(chunks)]

\* newHistory[newHistory.length - 1] = { ... }
ReplaceLast(history, message) ==
  [history EXCEPT ![Len(history)] = message]

\* processedChunks.unshift(processedText) in the place of push
PushProcessed_Unshift(processedChunks, processedText) ==
  <<processedText>> \o processedChunks

\* processedChunks.push(processedText)
PushProcessed(processedChunks, processedText) ==
  Append(processedChunks, processedText)

-----------------------------------------------------------------------------
(* debounce and the three debounced savers *)

CONTENT_WAIT == 2000
CHAT_WAIT == 1000
PREFERENCES_WAIT == 500

\* The debounced streams, the delay of each, and a stream with no timer set
Streams == {"content", "chat", "preferences"}
Wait(stream) ==
  CASE stream = "content" -> CONTENT_WAIT
    [] stream = "chat" -> CHAT_WAIT
    [] stream = "preferences" -> PREFERENCES_WAIT
NoTimers == [s \in Streams |-> [timeout |-> <<>>, pending |-> {}]]

\* setTimeout(later, wait) at time now, later holding the arguments of the call
Timer(value, now, wait) == [value |-> value, due |-> now + wait]

\* clearTimeout(timeout): the timer the handle names, if it is still set
ClearTimeout(pending, timeout) ==
  {timer \in pending : \A k \in 1..Len(timeout) : timer # timeout[k]}

\* A debounce that sets the new timer and leaves the one before it
Debounced_KeepsPending(t, value, now, wait) ==
  [timeout |-> <<Timer(value, now, wait)>>,
   pending |-> t.pending \cup {Timer(value, now, wait)}]

\* The function debounce returns, called with value at time now:
\* clearTimeout(timeout); timeout = setTimeout(later, wait)
Debounced(t, value, now, wait) ==
  [timeout |-> <<Timer(value, now, wait)>>,
   pending |-> ClearTimeout(t.pending, t.timeout) \cup {Timer(value, now, wait)}]

\* later(), up to its call of func: the timer has fired, clearTimeout(timeout)
Fired(t, timer) ==
  [timeout |-> t.timeout,
   pending |-> ClearTimeout(t.pending \ {timer}, t.timeout)]

\* func(...args) of a stream
Func(stream, ls, value, now, failAt) ==
  CASE stream = "content" -> saveContent(ls, value, now, failAt)
    [] stream = "chat" -> saveChatHistory(ls, value, failAt)
    [] stream = "preferences" -> savePreferences(ls, value, failAt)

-----------------------------------------------------------------------------
(* The library called directly: any caller, any arguments, any call order *)

LibTexts == {<<"a">>, <<"a", SP, "b">>}
LibLabels == {<<"L">>}
LibHistories == {<<WELCOME_MESSAGE>>}
LibPrefs == {<<"clarity">>}
Ids == 0..(MaxClock + 1)

\* The record of a call: which function, the id it was given (restoreVersion,
\* deleteVersion), whether a setItem in it threw, what it returned, whether
\* an exception left it, and how many versions the ledger held before it.
Call(op, id, failAt, out, threw) ==
  [op |-> op, id |-> id, failed |-> failAt # 0, ret |-> out.ret,
   threw |-> threw, lenBefore |-> Len(getVersions(localStorage))]

NoId == -1
NoCall ==
  [op |-> "none", id |-> NoId, failed |-> FALSE, ret |-> RetNull,
   threw |-> FALSE, lenBefore |-> 0]

\* Every statement of these functions is inside try/catch, and the catch
\* block only logs and returns: no exception leaves them.
LibCall(op, id, failAt, out) ==
  /\ localStorage' = out.ls
  /\ lastCall' = Call(op, id, failAt, out, FALSE)
  /\ UNCHANGED <<clock, memVars, uiVars, planVars>>

LibSaveContent ==
  \E text \in LibTexts, failAt \in 0..2 :
    LibCall("saveContent", NoId, failAt,
            saveContent(localStorage, text, clock, failAt))

LibSaveChatHistory ==
  \E history \in LibHistories, failAt \in 0..1 :
    LibCall("saveChatHistory", NoId, failAt,
            saveChatHistory(localStorage, history, failAt))

LibSavePreferences ==
  \E prefs \in LibPrefs, failAt \in 0..1 :
    LibCall("savePreferences", NoId, failAt,
            savePreferences(localStorage, prefs, failAt))

LibSaveVersion ==
  \E text \in LibTexts, label \in LibLabels, failAt \in 0..1 :
    LibCall("saveVersion", NoId, failAt,
            saveVersion(localStorage, text, label, clock, failAt))

LibRestoreVersion ==
  \E id \in Ids :
    LibCall("restoreVersion", id, 0, restoreVersion(localStorage, id))

LibDeleteVersion ==
  \E id \in Ids, failAt \in 0..1 :
    LibCall("deleteVersion", id, failAt,
            deleteVersion(localStorage, id, failAt))

\* Time passes between calls; Date.now() never goes back.
Tick ==
  /\ clock < MaxClock
  /\ clock' = clock + 1
  /\ UNCHANGED <<localStorage, lastCall, memVars, uiVars, planVars>>

LibInit ==
  /\ localStorage = EmptyStorage
  /\ clock = 0
  /\ lastCall = NoCall
  /\ content = <<"a">>
  /\ suggestions = <<>>
  /\ chatHistory = <<WELCOME_MESSAGE>>
  /\ isAnalyzing = FALSE
  /\ error = NoError
  /\ analysis = NoAnalysis
  /\ budget = MAX_WORDS_PER_CHUNK
  /\ prepare = NoPrepare
  /\ isPreparing = FALSE
  /\ timers = NoTimers
  /\ effectDeps = content

\* The versioning calls, in any order, as time passes.
LedgerNext ==
  \/ LibSaveVersion
  \/ LibRestoreVersion
  \/ LibDeleteVersion
  \/ Tick

SpecLedger == LibInit /\ [][LedgerNext]_vars

\* Every library call that writes, and restoreVersion, within one millisecond.
LibNext ==
  \/ LibSaveContent
  \/ LibSaveChatHistory
  \/ LibSavePreferences
  \/ LibSaveVersion
  \/ LibRestoreVersion
  \/ LibDeleteVersion

SpecLib == LibInit /\ [][LibNext]_vars

-----------------------------------------------------------------------------
(* The debounced savers called directly, as time passes.  Time is observed
   in steps of the shortest of the three delays. *)

\* A call of a debounced saver.  Its record: the stream, the argument, and
\* whether a timer of the stream was set when the call was made.
AutoSave(stream, values) ==
  /\ \E value \in values :
       /\ timers' = [timers EXCEPT
                       ![stream] = Debounced(@, value, clock, Wait(stream))]
       /\ lastCall' = [op |-> "autoSave", stream |-> stream, value |-> value,
                       replaced |-> timers[stream].pending # {}]
  /\ UNCHANGED <<localStorage, clock, memVars, uiVars, budget, prepare,
                 isPreparing, effectDeps>>

AutoSaveContent == AutoSave("content", LibTexts)
AutoSaveChatHistory == AutoSave("chat", LibHistories)
AutoSavePreferences == AutoSave("preferences", LibPrefs)

\* A timer that is due fires: later() runs, and func with the arguments of
\* the call that set the timer.
TimerFires ==
  /\ \E stream \in Streams, failAt \in 0..1 :
       \E timer \in timers[stream].pending :
         /\ clock >= timer.due
         /\ timers' = [timers EXCEPT ![stream] = Fired(@, timer)]
         /\ localStorage' =
              Func(stream, localStorage, timer.value, clock, failAt).ls
  /\ UNCHANGED <<clock, lastCall, memVars, uiVars, budget, prepare,
                 isPreparing, effectDeps>>

TimePasses ==
  /\ clock < MaxTime
  /\ clock' = clock + PREFERENCES_WAIT
  /\ UNCHANGED <<localStorage, lastCall, memVars, uiVars, planVars>>

DebounceNext ==
  \/ AutoSaveContent
  \/ AutoSaveChatHistory
  \/ AutoSavePreferences
  \/ TimerFires
  \/ TimePasses

SpecDebounce == LibInit /\ [][DebounceNext]_vars

-----------------------------------------------------------------------------
(* The chunk planner on every document and budget *)

PlanChars == {"a", SP, NL}
PlanDocs == UNION {[1..n -> PlanChars] : n \in 0..MaxPlanLen}
Budgets == (1..MaxBudget) \cup {MAX_WORDS_PER_CHUNK}

PlanInit ==
  /\ localStorage = EmptyStorage
  /\ clock = 0
  /\ lastCall = NoCall
  /\ content \in PlanDocs
  /\ suggestions = <<>>
  /\ chatHistory = <<WELCOME_MESSAGE>>
  /\ isAnalyzing = FALSE
  /\ error = NoError
  /\ analysis = NoAnalysis
  /\ budget \in Budgets
  /\ prepare = NoPrepare
  /\ isPreparing = FALSE
  /\ timers = NoTimers
  /\ effectDeps = content

\* prepareDocument(content) up to its first request
PlanDocument ==
  /\ prepare.status = "none"
  /\ prepare' = StartPrepare(content, budget)
  /\ UNCHANGED <<libVars, memVars, uiVars, budget, isPreparing, timers,
                 effectDeps>>

PlanNext == PlanDocument

SpecChunk == PlanInit /\ [][PlanNext]_vars

-----------------------------------------------------------------------------
(* The Editor component: handlers *)

\* A textarea that is rendered next to the highlighted view
EditContent_WhileHighlighted(docs) ==
  /\ \E text \in docs : content' = text
  /\ UNCHANGED <<libVars, suggestions, chatHistory, uiVars, planVars>>

\* The textarea's onChange; the textarea is rendered only while there are no
\* suggestions (suggestions.length > 0 ? highlighted view : textarea).
EditContent(docs) ==
  /\ suggestions = <<>>
  /\ \E text \in docs : content' = text
  /\ UNCHANGED <<libVars, suggestions, chatHistory, uiVars, planVars>>

\* analyzeContent up to the await of callClaudeAPI.  The Analyze button is
\* disabled while isAnalyzing; activeModes stays at its initial ['clarity'].
\* The handler keeps the content of the render it was created in.
AnalyzeContent ==
  /\ ~isAnalyzing
  /\ Len(chatHistory) < MaxChat
  /\ IF IsBlank(content) \/ content = SAMPLE_TEXT
       THEN /\ error' = <<"Please paste your chapter content before analyzing.">>
            /\ UNCHANGED <<isAnalyzing, suggestions, analysis>>
       ELSE /\ isAnalyzing' = TRUE
            /\ error' = NoError
            /\ suggestions' = <<>>
            /\ analysis' = [status |-> "waiting", content |-> content,
                            replaced |-> suggestions, reply |-> <<>>]
  /\ UNCHANGED <<libVars, content, chatHistory, planVars>>

\* The text-completion service answers the request of the analysis.
ServiceResponds(replies) ==
  /\ analysis.status = "waiting"
  /\ \E reply \in replies :
       analysis' = [analysis EXCEPT !.status = "responded", !.reply = reply]
  /\ UNCHANGED <<libVars, memVars, isAnalyzing, error, planVars>>

\* analyzeContent from the await on: try, catch and finally.
AnalysisContinues ==
  /\ analysis.status = "responded"
  /\ Len(chatHistory) < MaxChat
  /\ LET result == CallResult(analysis.reply)
     IN  IF result.tag = "parsed"
           THEN LET processedSuggestions ==
                      ProcessSuggestions(result.value, analysis.content)
                IN  /\ suggestions' = processedSuggestions
                    /\ chatHistory' =
                         Append(chatHistory,
                                Message("assistant",
                                        IF Len(processedSuggestions) > 0
                                          THEN "Analysis complete. I found"
                                          ELSE "Analysis complete. The text looks strong"))
                    /\ UNCHANGED error
           ELSE /\ error' = <<"Analysis failed", result.message>>
                /\ chatHistory' =
                     Append(chatHistory,
                            Message("assistant", "I encountered an issue during analysis"))
                /\ UNCHANGED suggestions
  /\ isAnalyzing' = FALSE
  /\ analysis' = NoAnalysis
  /\ UNCHANGED <<libVars, content, planVars>>

\* acceptSuggestion(suggestion), from a card of the suggestions panel
AcceptSuggestion ==
  /\ Len(chatHistory) < MaxChat
  /\ \E k \in 1..Len(suggestions) :
       LET suggestion == suggestions[k]
           newContent == Splice(content, suggestion)
       IN  /\ Len(newContent) <= MaxDocLen
           /\ content' = newContent
           /\ suggestions' = WithoutId(suggestions, suggestion.id)
  /\ chatHistory' = Append(chatHistory, Message("assistant", "Applied"))
  /\ UNCHANGED <<libVars, uiVars, planVars>>

\* dismissSuggestion(suggestion)
DismissSuggestion ==
  /\ Len(chatHistory) < MaxChat
  /\ \E k \in 1..Len(suggestions) :
       suggestions' = WithoutId(suggestions, suggestions[k].id)
  /\ chatHistory' = Append(chatHistory, Message("assistant", "Dismissed suggestion"))
  /\ UNCHANGED <<libVars, content, uiVars, planVars>>

\* The "Clear highlights" button: setSuggestions([])
ClearHighlights ==
  /\ Len(suggestions) > 0
  /\ suggestions' = <<>>
  /\ UNCHANGED <<libVars, content, chatHistory, uiVars, planVars>>

\* [...suggestions].sort((a, b) => a.start - b.start): the sort is stable
RECURSIVE InsertByStart(_, _)
InsertByStart(sorted, s) ==
  IF sorted = <<>> THEN <<s>>
  ELSE IF s.start < Head(sorted).start THEN <<s>> \o sorted
  ELSE <<Head(sorted)>> \o InsertByStart(Tail(sorted), s)

RECURSIVE SortByStart(_)
SortByStart(list) ==
  IF list = <<>> THEN <<>>
  ELSE InsertByStart(SortByStart(SubSeq(list, 1, Len(list) - 1)),
                     list[Len(list)])

TextSpan(text) == [kind |-> "text", text |-> text]
HighlightSpan(id, text) == [kind |-> "highlight", id |-> id, text |-> text]

\* The body of sortedSuggestions.forEach, from the k-th suggestion on; the
\* result is the spans pushed and the last value of lastIndex.
RECURSIVE RenderFrom(_, _, _, _)
RenderFrom(text, sortedSuggestions, k, lastIndex) ==
  IF k > Len(sortedSuggestions) THEN [spans |-> <<>>, lastIndex |-> lastIndex]
  ELSE LET suggestion == sortedSuggestions[k]
           gap == IF suggestion.start > lastIndex
                    THEN <<TextSpan(Substring(text, lastIndex, suggestion.start))>>
                    ELSE <<>>
           mark == HighlightSpan(suggestion.id,
                                 Substring(text, suggestion.start, suggestion.end))
           rest == RenderFrom(text, sortedSuggestions, k + 1, suggestion.end)
       IN  [spans |-> gap \o <<mark>> \o rest.spans, lastIndex |-> rest.lastIndex]

\* renderContentWithHighlights(), as the list of spans it returns (the plain
\* content is one text span)
renderContentWithHighlights(text, list) ==
  IF Len(list) = 0 THEN <<TextSpan(text)>>
  ELSE LET body == RenderFrom(text, SortByStart(list), 1, 0)
       IN  body.spans \o (IF body.lastIndex < Len(text)
                            THEN <<TextSpan(SubstringFrom(text, body.lastIndex))>>
                            ELSE <<>>)

\* handlePrepareDocument up to the first await of prepareDocument, from the
\* confirm dialog of the Prepare button (disabled while isPreparing or while
\* the content is SAMPLE_TEXT).  now is what Date.now() returns to the
\* handler.
HandlePrepareDocument(now) ==
  /\ now >= clock
  /\ clock' = now
  /\ ~isPreparing
  /\ content # SAMPLE_TEXT
  /\ IF IsBlank(content)
       THEN /\ error' = <<"Please paste your chapter content before preparing.">>
            /\ UNCHANGED <<localStorage, lastCall, chatHistory, prepare,
                           isPreparing>>
       ELSE /\ Len(chatHistory) + 1 < MaxChat
            /\ isPreparing' = TRUE
            /\ error' = NoError
            /\ \E failAt \in 0..1 :
                 localStorage' = saveVersion(localStorage, content,
                                             <<"Before preparation">>,
                                             now, failAt).ls
            /\ prepare' = StartPrepare(content, budget)
            /\ chatHistory' =
                 ReplaceLast(Append(chatHistory,
                                    Message("assistant", "Preparing document")),
                             ProgressMessage(prepare'.chunks, 0))
            /\ UNCHANGED lastCall
  /\ UNCHANGED <<content, suggestions, isAnalyzing, analysis, budget, timers,
                 effectDeps>>

\* The text-completion service answers the outstanding request of prepare.
PrepareServiceResponds(replies) ==
  /\ prepare.status = "waiting"
  /\ \E reply \in replies :
       prepare' = [prepare EXCEPT !.status = "responded", !.reply = reply,
                                  !.received = Append(@, reply)]
  /\ UNCHANGED <<libVars, memVars, uiVars, budget, isPreparing, timers,
                 effectDeps>>

\* The next turn of the loop of prepareDocument, up to its await
AwaitNext(p, processedChunks) ==
  [tag |-> "await",
   prepare |-> [p EXCEPT !.status = "waiting",
                         !.i = @ + 1,
                         !.processedChunks = processedChunks,
                         !.sent = Append(@, RequestBody(p.text, p.chunks, p.i + 1))]]

\* A loop that goes on to the next section when a request has failed
ResumePrepare_SkipsFailed(p) ==
  LET n == Len(p.chunks)
      processedChunks ==
        IF p.reply.ok THEN PushProcessed(p.processedChunks, Trim(p.reply.text))
                      ELSE p.processedChunks
  IN  IF n # 1 /\ p.i + 1 < n THEN AwaitNext(p, processedChunks)
      ELSE IF ~p.reply.ok /\ processedChunks = <<>> THEN [tag |-> "throw"]
      ELSE [tag |-> "return",
            text |-> IF n = 1 THEN Trim(p.reply.text)
                     ELSE Join(processedChunks, BlankLine)]

\* prepareDocument from an await on, with the response p.reply: it throws,
\* or awaits the next request, or returns the prepared text.
ResumePrepare(p) ==
  LET n == Len(p.chunks)
      processedText == Trim(p.reply.text)
      processedChunks == PushProcessed(p.processedChunks, processedText)
  IN  IF ~p.reply.ok THEN [tag |-> "throw"]
      ELSE IF n = 1 THEN [tag |-> "return", text |-> processedText]
      ELSE IF p.i + 1 < n THEN AwaitNext(p, processedChunks)
      ELSE [tag |-> "return", text |-> Join(processedChunks, BlankLine)]

\* A handler that resets the flag only when the preparation succeeded
IsPreparingAfter_ResetOnSuccess(tag) ==
  IF tag = "return" THEN FALSE ELSE isPreparing

\* finally { setIsPreparing(false) }, reached when prepareDocument has
\* returned or thrown, not while it awaits the next request
IsPreparingAfter(tag) ==
  IF tag = "await" THEN isPreparing ELSE FALSE

\* prepareDocument resumes, and handlePrepareDocument with it when
\* prepareDocument returns (try) or throws (catch); finally in both cases.
PrepareContinues ==
  /\ prepare.status = "responded"
  /\ Len(chatHistory) < MaxChat
  /\ LET step == ResumePrepare(prepare)
     IN
     /\ CASE step.tag = "throw" ->
                /\ error' = <<"Document preparation failed", "API error">>
                /\ chatHistory' =
                     Append(chatHistory,
                            Message("assistant",
                                    "I encountered an issue during preparation"))
                /\ prepare' = NoPrepare
                /\ UNCHANGED <<content, suggestions>>
           [] step.tag = "await" ->
                /\ prepare' = step.prepare
                /\ chatHistory' =
                     ReplaceLast(chatHistory,
                                 ProgressMessage(prepare.chunks, prepare.i + 1))
                /\ UNCHANGED <<content, suggestions, error>>
           [] step.tag = "return" ->
                /\ content' = step.text
                /\ suggestions' = <<>>
                /\ chatHistory' =
                     Append(chatHistory,
                            Message("assistant", "Document prepared successfully"))
                /\ prepare' = NoPrepare
                /\ UNCHANGED error
     /\ isPreparing' = IsPreparingAfter(step.tag)
  /\ UNCHANGED <<libVars, isAnalyzing, analysis, budget, timers, effectDeps>>

\* saveVersion of the Editor (the version menu).  prompt() returns null on
\* Cancel, and the handler then does nothing; otherwise the typed label.
EditorSaveVersion(labels, now) ==
  /\ now >= clock
  /\ clock' = now
  /\ Len(chatHistory) < MaxChat
  /\ \E label \in labels, failAt \in 0..1 :
       LET out == saveVersion(localStorage, content, label, now, failAt)
       IN  /\ localStorage' = out.ls
           /\ chatHistory' =
                IF out.ret.tag = "value"
                  THEN Append(chatHistory, Message("assistant", "Saved version"))
                  ELSE chatHistory
  /\ UNCHANGED <<lastCall, content, suggestions, uiVars, planVars>>

\* A restore that leaves the pending suggestions in place
EditorRestoreVersion_KeepsSuggestions ==
  /\ Len(chatHistory) < MaxChat
  /\ \E k \in 1..Len(getVersions(localStorage)) :
       LET restored ==
             restoreVersion(localStorage, getVersions(localStorage)[k].id).ret
       IN  /\ restored.tag = "value" /\ restored.value # <<>>
           /\ content' = restored.value
           /\ chatHistory' =
                Append(chatHistory, Message("assistant", "Version restored"))
  /\ UNCHANGED <<libVars, suggestions, uiVars, planVars>>

\* restoreVersion(id) of the Editor, from an entry of the version menu
EditorRestoreVersion ==
  /\ Len(chatHistory) < MaxChat
  /\ \E k \in 1..Len(getVersions(localStorage)) :
       LET id == getVersions(localStorage)[k].id
           restored == restoreVersion(localStorage, id).ret
       IN  IF restored.tag = "value" /\ restored.value # <<>>
             THEN /\ content' = restored.value
                  /\ suggestions' = <<>>
                  /\ chatHistory' =
                       Append(chatHistory,
                              Message("assistant", "Version restored"))
             ELSE UNCHANGED <<content, suggestions, chatHistory>>
  /\ UNCHANGED <<libVars, uiVars, planVars>>

\* startNewDocument, the user having confirmed where the handler asks.
\* (Cancel in window.confirm returns before anything is changed.)  The
\* two sets are the outcomes of the setItem calls of saveContent and of
\* saveChatHistory that a session explores.
StartNewDocument(contentFailures, chatFailures, now) ==
  \E failVersion \in 0..1, failContent \in contentFailures,
     failChat \in chatFailures :
    LET asks == content # SAMPLE_TEXT /\ ~IsBlank(content)
        ls1 == IF asks
                 THEN saveVersion(localStorage, content,
                                  <<"Auto-save before new document">>,
                                  now, failVersion).ls
                 ELSE localStorage
        ls2 == saveContent(ls1, <<>>, now, failContent).ls
        out == saveChatHistory(ls2, <<WELCOME_MESSAGE>>, failChat)
    IN  /\ (~asks => failVersion = 0)
        /\ now >= clock
        /\ clock' = now
        /\ content' = SAMPLE_TEXT
        /\ suggestions' = <<>>
        /\ chatHistory' = <<WELCOME_MESSAGE>>
        /\ error' = NoError
        /\ localStorage' = out.ls
        /\ UNCHANGED <<lastCall, isAnalyzing, analysis, planVars>>

\* The Editor mounted on an empty storage, the user having typed one of docs
\* into the textarea (SAMPLE_TEXT: nothing typed yet).
EditorInit(docs) ==
  /\ localStorage = EmptyStorage
  /\ clock = 0
  /\ lastCall = NoCall
  /\ content \in docs
  /\ suggestions = <<>>
  /\ chatHistory = <<WELCOME_MESSAGE>>
  /\ isAnalyzing = FALSE
  /\ error = NoError
  /\ analysis = NoAnalysis
  /\ budget = MAX_WORDS_PER_CHUNK
  /\ prepare = NoPrepare
  /\ isPreparing = FALSE
  /\ timers = NoTimers
  /\ effectDeps = content

-----------------------------------------------------------------------------
(* One editing session: typing, analysis, accept and dismiss *)

UserDocs == {<<"a", "a", "b">>, <<"b", "a">>, <<SP>>}

E1 == Element(<<"a">>, <<>>)
E2 == Element(<<"b">>, <<"b", "b">>)
E3 == Element(<<"c">>, <<"a">>)
E4 == Element(<<"a", "a">>, <<"b">>)

EditorResponses ==
  { <<Prose>>,
    <<Open, Prose, Close>>,
    <<Open, Close>>,
    <<Prose, Open, E1, E2, Close, Prose>>,
    <<Open, E3, E1, Close>>,
    <<Open, E1, E4, Close>> }

ServiceError == [ok |-> FALSE, text |-> <<>>]
Replies(responses) ==
  {ServiceError} \cup {[ok |-> TRUE, text |-> r] : r \in responses}

Init == EditorInit({SAMPLE_TEXT})

UserEdits == EditContent(UserDocs)
EditorServiceResponds == ServiceResponds(Replies(EditorResponses))

Next ==
  \/ UserEdits
  \/ AnalyzeContent
  \/ EditorServiceResponds
  \/ AnalysisContinues
  \/ AcceptSuggestion
  \/ DismissSuggestion
  \/ ClearHighlights

Spec == Init /\ [][Next]_vars

-----------------------------------------------------------------------------
(* Sessions that replace the document.  The word budget of a chunk is scaled
   down to the size of the documents, and every handler that reads the time
   runs a millisecond after the one before it. *)

SessionDocs == {<<"a">>}
SessionBudget == 1
SessionLabels == {<<"L">>}
Later == {now \in 0..MaxClock : now = clock + 1}

SessionInit ==
  /\ localStorage = EmptyStorage
  /\ clock = 0
  /\ lastCall = NoCall
  /\ content = SAMPLE_TEXT
  /\ suggestions = <<>>
  /\ chatHistory = <<WELCOME_MESSAGE>>
  /\ isAnalyzing = FALSE
  /\ error = NoError
  /\ analysis = NoAnalysis
  /\ budget = SessionBudget
  /\ prepare = NoPrepare
  /\ isPreparing = FALSE
  /\ timers = NoTimers
  /\ effectDeps = content

SessionEdits == EditContent(SessionDocs)
PrepareDocs ==
  SessionDocs \cup {<<"a", NL, NL, "a">>, <<"a", NL, NL, "a", NL, NL, "a">>}
PrepareEdits == EditContent(PrepareDocs)
SessionPrepare == \E now \in Later : HandlePrepareDocument(now)

\* Prepare alone: the user edits while the sections are processed.
PrepareReplies ==
  {ServiceError, [ok |-> TRUE, text |-> <<"x">>],
                 [ok |-> TRUE, text |-> <<"y", SP>>]}

PrepareResponds == PrepareServiceResponds(PrepareReplies)

PrepareNext ==
  \/ PrepareEdits
  \/ SessionPrepare
  \/ PrepareResponds
  \/ PrepareContinues

SpecPrepare == SessionInit /\ [][PrepareNext]_vars

\* Every way of replacing the document, with an analysis in between.
SessionResponses == {<<Open, Element(<<"a">>, <<"b">>), Close>>}
SessionPrepareReplies == {ServiceError, [ok |-> TRUE, text |-> <<"x">>]}

SessionAnalysisResponds == ServiceResponds(Replies(SessionResponses))
SessionPrepareResponds == PrepareServiceResponds(SessionPrepareReplies)
SessionSaveVersion == \E now \in Later : EditorSaveVersion(SessionLabels, now)
SessionNewDocument == \E now \in Later : StartNewDocument({0}, {0}, now)

SessionNext ==
  \/ SessionEdits
  \/ AnalyzeContent
  \/ SessionAnalysisResponds
  \/ AnalysisContinues
  \/ SessionPrepare
  \/ SessionPrepareResponds
  \/ PrepareContinues
  \/ SessionSaveVersion
  \/ EditorRestoreVersion
  \/ SessionNewDocument

SpecSession == SessionInit /\ [][SessionNext]_vars

\* Every handler that writes the document: typing, accept, prepare, restore
\* and new document, the versions being the backups the handlers make.
DocumentNext ==
  \/ SessionEdits
  \/ AnalyzeContent
  \/ SessionAnalysisResponds
  \/ AnalysisContinues
  \/ AcceptSuggestion
  \/ SessionPrepare
  \/ SessionPrepareResponds
  \/ PrepareContinues
  \/ EditorRestoreVersion
  \/ SessionNewDocument

SpecDocument == SessionInit /\ [][DocumentNext]_vars

-----------------------------------------------------------------------------
(* Typing and new documents with the auto-save of the content: the effect
   that follows a render, the timer it sets, and the passing of time *)

\* useEffect(() => { if (content !== SAMPLE_TEXT) autoSaveContent(content) },
\* [content]): run after a render in which content has changed
ContentEffect ==
  /\ effectDeps # content
  /\ effectDeps' = content
  /\ timers' =
       IF content # SAMPLE_TEXT
         THEN [timers EXCEPT
                 !["content"] = Debounced(@, content, clock, Wait("content"))]
         ELSE timers
  /\ UNCHANGED <<libVars, memVars, uiVars, budget, prepare, isPreparing>>

\* The handlers of the next events, the effect of the render having run
AutoSaveEdits == effectDeps = content /\ EditContent({<<"a">>, <<"b">>})
AutoSaveNewDocument ==
  /\ effectDeps = content
  /\ Len(getVersions(localStorage)) < MaxResets
  /\ StartNewDocument({0}, {0}, clock)

AutoSaveNext ==
  \/ AutoSaveEdits
  \/ ContentEffect
  \/ AutoSaveNewDocument
  \/ TimerFires
  \/ TimePasses

SpecAutoSave == Init /\ [][AutoSaveNext]_vars

-----------------------------------------------------------------------------
(* Anchoring on every document and model array: analyses of a document that
   is not edited meanwhile *)

AnchorChars == {"a", "b"}
AnchorDocs == UNION {[1..n -> AnchorChars] : n \in 1..MaxAnchorLen}
AnchorOriginals == {<<>>, <<"a">>, <<"b">>, <<"a", "b">>, <<"c">>}
AnchorElements == {Element(o, <<"x">>) : o \in AnchorOriginals}
AnchorArrays == UNION {[1..n -> AnchorElements] : n \in 0..MaxArray}
AnchorResponses == {<<Open>> \o A \o <<Close>> : A \in AnchorArrays}

AnchorInit == EditorInit(AnchorDocs)

AnchorServiceResponds == ServiceResponds(Replies(AnchorResponses))

\* The first analysis of the session
AnchorAnalyze == chatHistory = <<WELCOME_MESSAGE>> /\ AnalyzeContent

AnchorNext ==
  \/ AnchorAnalyze
  \/ AnchorServiceResponds
  \/ AnalysisContinues

SpecAnchor == AnchorInit /\ [][AnchorNext]_vars

-----------------------------------------------------------------------------
(* Properties of the library *)

Ledger == getVersions(localStorage)

\* In SpecLedger a step that leaves the clock alone is a versioning call.
IsCall == clock' = clock

\* C1: in every state reachable by saveVersion, deleteVersion and
\* restoreVersion calls the persisted Version Ledger holds at most 5 versions.
C1_LedgerAtMostFive == Len(Ledger) <= 5

\* C1 witness: a successful saveVersion on a ledger that already held 5.
C1_SavedOntoFullLedger ==
  /\ lastCall.op = "saveVersion"
  /\ lastCall.ret.tag = "value"
  /\ lastCall.lenBefore = 5
  /\ Len(Ledger) = 5

\* C2: a saveVersion that returns the new version leaves the ledger
\* [newVersion] followed by the first min(|L|, 4) entries of the ledger L it
\* found, in their order.
C2_SaveVersionPrepends ==
  [][(IsCall /\ lastCall'.op = "saveVersion" /\ lastCall'.ret.tag = "value")
       => LET L == Ledger
          IN  getVersions(localStorage') =
                <<lastCall'.ret.value>> \o SubSeq(L, 1, Min(Len(L), 4))]_vars

\* C2 witness: the sixth save: the ledger held 5 versions with the oldest of
\* them older than the others, and the save put a newer version in front.
C2_SixthSaveEvicted ==
  /\ lastCall.op = "saveVersion"
  /\ lastCall.ret.tag = "value"
  /\ lastCall.lenBefore = 5
  /\ Len(Ledger) = 5
  /\ Ledger[1] = lastCall.ret.value
  /\ Ledger[1].id > Ledger[5].id

\* C8: restoreVersion(id) leaves the stored ledger as it found it for every
\* id, and returns null when no version of the ledger has that id.
C8_RestoreVersionIsLookup ==
  [][(IsCall /\ lastCall'.op = "restoreVersion")
       => /\ localStorage' = localStorage
          /\ (\A i \in 1..Len(Ledger) : Ledger[i].id # lastCall'.id)
               => lastCall'.ret.tag = "null"]_vars

\* C8 witness: restoreVersion of an id that a non-empty ledger does not hold
\* has returned null.
C8_UnknownIdRestored ==
  /\ lastCall.op = "restoreVersion"
  /\ lastCall.ret.tag = "null"
  /\ Len(Ledger) >= 2
  /\ \A i \in 1..Len(Ledger) : Ledger[i].id # lastCall.id

\* C9: when a setItem throws, saveContent, saveChatHistory, savePreferences
\* and deleteVersion return false and saveVersion returns null, no exception
\* leaves the call, and document, Suggestion Set and chat log stay as they are.
C9_FailedWriteIsReported ==
  [][lastCall'.failed
       => /\ lastCall'.op \in {"saveContent", "saveChatHistory",
                               "savePreferences", "deleteVersion"}
               => lastCall'.ret.tag = "false"
          /\ lastCall'.op = "saveVersion" => lastCall'.ret.tag = "null"
          /\ ~lastCall'.threw
          /\ UNCHANGED <<content, suggestions, chatHistory>>]_vars

\* C9 witness: a saveContent whose second setItem threw, after the content
\* was written, has returned false.
C9_SaveContentFailed ==
  /\ lastCall.op = "saveContent"
  /\ lastCall.failed
  /\ lastCall.ret.tag = "false"
  /\ localStorage["CONTENT"].tag = "item"
  /\ localStorage["LAST_SAVED"].tag = "none"

-----------------------------------------------------------------------------
(* Properties of the chunk planner *)

Planned == prepare.status = "waiting"

\* The document with every run of three or more newlines cut to two.
RECURSIVE CollapseBlankRuns(_, _)
CollapseBlankRuns(s, run) ==
  IF s = <<>> THEN <<>>
  ELSE IF Head(s) = NL
    THEN IF run >= 2
           THEN CollapseBlankRuns(Tail(s), run)
           ELSE <<NL>> \o CollapseBlankRuns(Tail(s), run + 1)
    ELSE <<Head(s)>> \o CollapseBlankRuns(Tail(s), 0)

HasLongBlankRun(s) ==
  \E i \in 1..(Len(s) - 2) : s[i] = NL /\ s[i + 1] = NL /\ s[i + 2] = NL

\* C6 as claimed: for every document, joining the planner's segments with a
\* blank line reconstructs the document exactly.
C6_JoinReconstructsExactly ==
  Planned => Join(prepare.chunks, BlankLine) = prepare.text

\* C6 amended: joining the segments with a blank line gives the document
\* with every run of three or more newlines cut to two; it is the document
\* itself when the document has no such run.
C6_JoinReconstructsUpToBlankRuns ==
  Planned =>
    /\ Join(prepare.chunks, BlankLine) = CollapseBlankRuns(prepare.text, 0)
    /\ ~HasLongBlankRun(prepare.text)
         => Join(prepare.chunks, BlankLine) = prepare.text

\* C6 witness: a document with leading blank lines and without a long run,
\* planned into two segments or more, which the join reconstructs.
C6_BlankLinesReconstructed ==
  /\ Planned
  /\ Len(prepare.chunks) >= 2
  /\ Len(prepare.text) >= 2 /\ SubSeq(prepare.text, 1, 2) = BlankLine
  /\ ~HasLongBlankRun(prepare.text)
  /\ Join(prepare.chunks, BlankLine) = prepare.text

RECURSIVE ParagraphsOfChunks(_)
ParagraphsOfChunks(chunks) ==
  IF chunks = <<>> THEN <<>>
  ELSE SplitParagraphs(Head(chunks)) \o ParagraphsOfChunks(Tail(chunks))

\* C7: for every document and budget the paragraphs of the segments, taken
\* segment after segment, are the paragraphs of the document in their order:
\* every paragraph is whole in exactly one segment.
C7_ParagraphsKeptWhole ==
  Planned =>
    ParagraphsOfChunks(prepare.chunks) = SplitParagraphs(prepare.text)

\* C7 witness: three paragraphs planned into two segments, the first of them
\* holding two paragraphs.
C7_TwoParagraphsInOneSegment ==
  /\ Planned
  /\ Len(SplitParagraphs(prepare.text)) = 3
  /\ Len(prepare.chunks) = 2
  /\ Len(SplitParagraphs(prepare.chunks[1])) = 2

\* The positions of the ledger whose version has another id, and the j-th
OtherIds(versions, id) == {k \in 1..Len(versions) : versions[k].id # id}
NthOther(versions, id, j) ==
  CHOOSE k \in OtherIds(versions, id) :
    Cardinality({m \in OtherIds(versions, id) : m <= k}) = j

\* C13: a deleteVersion(id) that returns true leaves the versions with
\* another id, all of them and in their order, and no version with that id;
\* when no version has the id the ledger is what it was; and a second
\* deleteVersion(id) would leave the ledger as the first one did.
C13_DeleteVersionRemovesOnlyId ==
  [][ (IsCall /\ lastCall'.op = "deleteVersion" /\ lastCall'.ret = RetTrue) =>
        LET id == lastCall'.id
        IN  /\ Len(Ledger') = Cardinality(OtherIds(Ledger, id))
            /\ \A j \in 1..Len(Ledger') :
                 Ledger'[j] = Ledger[NthOther(Ledger, id, j)]
            /\ (OtherIds(Ledger, id) = 1..Len(Ledger) => Ledger' = Ledger)
            /\ getVersions(deleteVersion(localStorage', id, 0).ls) = Ledger'
    ]_vars

\* A deleteVersion took two versions saved in the same millisecond out of a
\* ledger and left the others.
C13_DeletedTwoOfSeveral ==
  /\ lastCall.op = "deleteVersion"
  /\ lastCall.ret = RetTrue
  /\ lastCall.lenBefore = Len(Ledger) + 2
  /\ Len(Ledger) >= 1

-----------------------------------------------------------------------------
(* Properties of the analysis and of accepting a suggestion *)

\* document.slice(a, b) for 0 <= a
Slice(text, a, b) == SubSeq(text, a + 1, Min(b, Len(text)))

\* The step in which analyzeContent resumes after the await
AnalysisCompletes == analysis.status = "responded" /\ analysis'.status = "none"

\* The step in which a successful analysis installs its suggestions
Installs == AnalysisCompletes /\ CallResult(analysis.reply).tag = "parsed"

\* The array the response of the completing analysis holds
ModelArray == CallResult(analysis.reply).value

\* C3: at the moment a successful analysis installs its suggestions, there
\* are at most as many of them as the model's array has elements, and each
\* one's offsets cut its original text out of the document as it is then,
\* whatever the user did while the request was in flight.
C3_InstalledSuggestionsMatchDocument ==
  [][ Installs =>
        /\ Len(suggestions') <= Len(ModelArray)
        /\ \A k \in 1..Len(suggestions') :
             Slice(content', suggestions'[k].start, suggestions'[k].end)
               = suggestions'[k].original ]_vars

\* The step of acceptSuggestion for the pending suggestion S
Accepts(S) ==
  /\ \E k \in 1..Len(suggestions) : suggestions[k] = S
  /\ suggestions' = WithoutId(suggestions, S.id)
  /\ content' = Splice(content, S)
  /\ chatHistory' = Append(chatHistory, Message("assistant", "Applied"))

\* C4: after accepting S, every other pending suggestion T that started
\* after S.end is shifted by len(S.suggestion) - len(S.original) and still
\* cuts T.original out of the new document.
C4_AcceptShiftsLaterSuggestions ==
  [][ \A i \in 1..Len(suggestions) :
        Accepts(suggestions[i]) =>
          LET S == suggestions[i]
              shift == Len(S.suggestion) - Len(S.original)
          IN  \A j \in 1..Len(suggestions) :
                LET T == suggestions[j]
                IN  (T.id # S.id /\ T.start > S.end) =>
                      \E m \in 1..Len(suggestions') :
                        /\ suggestions'[m].id = T.id
                        /\ suggestions'[m].start = T.start + shift
                        /\ suggestions'[m].end = T.end + shift
                        /\ Slice(content', suggestions'[m].start,
                                 suggestions'[m].end) = T.original ]_vars

\* The steps of acceptSuggestion and of dismissSuggestion, by their chat note
AcceptStep ==
  chatHistory' = Append(chatHistory, Message("assistant", "Applied"))
DismissStep ==
  chatHistory' = Append(chatHistory, Message("assistant", "Dismissed suggestion"))

RemoveAt(list, i) == SubSeq(list, 1, i - 1) \o SubSeq(list, i + 1, Len(list))
SliceFrom(text, a) == SubSeq(text, Min(a, Len(text)) + 1, Len(text))
LastMessage == chatHistory[Len(chatHistory)]

\* C11: accepting S replaces the document by document[0:S.start] +
\* S.suggestion + document[S.end:] and takes S, and nothing but S, out of
\* the pending suggestions.
C11_AcceptSplicesAndRemovesOnlyS ==
  [][ AcceptStep =>
        \E i \in 1..Len(suggestions) :
          LET S == suggestions[i]
          IN  /\ content' = Slice(content, 0, S.start) \o S.suggestion
                               \o SliceFrom(content, S.end)
              /\ suggestions' = RemoveAt(suggestions, i) ]_vars

\* "aab" with "a" anchored at its first occurrence 0..1 and replaced by ""
\* has become "ab", and another suggestion is still pending.
C11_FirstOccurrenceReplaced ==
  /\ LastMessage = Message("assistant", "Applied")
  /\ content = <<"a", "b">>
  /\ Len(suggestions) >= 1

\* C12: dismissing S takes S out of the pending suggestions and leaves the
\* document and every other pending suggestion as they were.
C12_DismissRemovesOnlyS ==
  [][ DismissStep =>
        /\ content' = content
        /\ \E i \in 1..Len(suggestions) :
             suggestions' = RemoveAt(suggestions, i) ]_vars

\* The first of two pending suggestions was dismissed; the second is pending.
C12_DismissedOneOfTwo ==
  /\ LastMessage = Message("assistant", "Dismissed suggestion")
  /\ Len(suggestions) = 1
  /\ suggestions[1].id = 2

Overlap(S, T) == T.start < S.end /\ S.start < T.end

\* C19: on accept of S, every other pending suggestion whose range overlaps
\* [S.start, S.end) is taken out of the pending suggestions.
C19_AcceptDropsOverlapping ==
  [][ AcceptStep =>
        \E i \in 1..Len(suggestions) :
          /\ content' = Splice(content, suggestions[i])
          /\ \A j \in 1..Len(suggestions) :
               (j # i /\ Overlap(suggestions[i], suggestions[j])) =>
                 \A m \in 1..Len(suggestions') :
                   suggestions'[m].id # suggestions[j].id ]_vars

\* The response of the completing analysis holds no '[' or no ']'
NoArrayInResponse ==
  /\ analysis.reply.ok
  /\ \/ IndexOfToken(analysis.reply.text, "[", 0) = -1
     \/ LastIndexOfToken(analysis.reply.text, "]",
                         Len(analysis.reply.text) - 1) = -1

\* C5: an analysis whose response holds no array reports the malformed
\* response and leaves the document and the suggestions that were pending
\* when the analysis was started as they were.
C5_NoArrayLeavesStateUntouched ==
  [][ (AnalysisCompletes /\ NoArrayInResponse) =>
        /\ error' = <<"Analysis failed", "No JSON array found">>
        /\ content' = content
        /\ suggestions' = analysis.replaced ]_vars

\* original occurs in text at the 0-based offset i
OccursAt(text, original, i) ==
  /\ i >= 0
  /\ i + Len(original) <= Len(text)
  /\ \A k \in 1..Len(original) : text[i + k] = original[k]

OccursIn(text, original) == \E i \in 0..Len(text) : OccursAt(text, original, i)

FirstOccurrence(text, original, i) ==
  /\ OccursAt(text, original, i)
  /\ \A j \in 0..(i - 1) : ~OccursAt(text, original, j)

\* The positions of A whose original occurs in D, and the j-th of them
Located(A, D) == {k \in 1..Len(A) : OccursIn(D, A[k].original)}
NthLocated(A, D, j) ==
  CHOOSE k \in Located(A, D) :
    Cardinality({m \in Located(A, D) : m <= k}) = j

\* C10: a successful analysis started on document D, with model array A, installs
\* exactly the elements of A whose original occurs in D, in A's order, each
\* anchored at the first occurrence of its original with end = start +
\* len(original); the other elements are dropped and no error is reported.
C10_AnchoredAtFirstOccurrence ==
  [][ Installs =>
        LET A == ModelArray
            D == analysis.content
            R == suggestions'
        IN  /\ Len(R) = Cardinality(Located(A, D))
            /\ \A j \in 1..Len(R) :
                 LET e == A[NthLocated(A, D, j)]
                 IN  /\ R[j].original = e.original
                     /\ R[j].suggestion = e.suggestion
                     /\ FirstOccurrence(D, e.original, R[j].start)
                     /\ R[j].end = R[j].start + Len(e.original)
            /\ error' = NoError ]_vars

\* An analysis has dropped the first element of its array and anchored the
\* second one past the start of the document, at the first of two occurrences.
C10_DroppedOneAnchoredFirstOfTwo ==
  /\ analysis.status = "none"
  /\ error = NoError
  /\ Len(suggestions) = 1
  /\ suggestions[1].id = 2
  /\ suggestions[1].start > 0
  /\ suggestions[1].original # <<>>
  /\ \E j \in (suggestions[1].start + 1)..Len(content) :
       OccursAt(content, suggestions[1].original, j)

-----------------------------------------------------------------------------
(* Properties of prepare *)

Preparing == prepare.status # "none"

\* The step in which prepareDocument reads a failed response / a good one
PrepareReadsFailure ==
  prepare.status = "responded" /\ ~prepare.reply.ok /\ prepare' # prepare
PrepareReturns ==
  /\ prepare.status = "responded"
  /\ prepare.reply.ok
  /\ prepare'.status = "none"

\* A step in which a request for a section is issued
IssuesRequest ==
  /\ prepare'.status = "waiting"
  /\ prepare # prepare'
  /\ prepare.status # "waiting"

\* C14: when the request for a section fails, prepare ends there: no further
\* request is issued (a request is issued only at the start or after a good
\* response), the document and the pending suggestions stay as they are
\* although earlier sections were processed, and the failure is reported;
\* no step of a prepare other than its successful return changes the document
\* or the pending suggestions.
C14_FailedSectionAbortsPrepare ==
  [][ /\ PrepareReadsFailure =>
           /\ prepare' = NoPrepare
           /\ content' = content
           /\ suggestions' = suggestions
           /\ error' = <<"Document preparation failed", "API error">>
      /\ IssuesRequest =>
           \/ prepare.status = "none"
           \/ prepare.status = "responded" /\ prepare.reply.ok
      /\ (prepare' # prepare /\ ~PrepareReturns) =>
           /\ content' = content
           /\ suggestions' = suggestions ]_vars

\* The request for section 2 or later of a prepare has failed.
C14_LaterSectionFailed ==
  /\ ~Preparing
  /\ Len(chatHistory) >= 2
  /\ LastMessage = Message("assistant", "I encountered an issue during preparation")
  /\ chatHistory[Len(chatHistory) - 1].kind = "Processing section"
  /\ chatHistory[Len(chatHistory) - 1].section >= 2
  /\ error = <<"Document preparation failed", "API error">>
  /\ content = <<"a", NL, NL, "a", NL, NL, "a">>

TrimAll(replies) == [k \in 1..Len(replies) |-> Trim(replies[k].text)]

\* C15: during a prepare every request issued has been answered except
\* possibly the last one, the requests are the sections in their order, a
\* request is issued only when every earlier one has been answered, and the
\* text a prepare of several sections returns is the responses, trimmed,
\* joined by blank lines in the order of the sections.
C15_SectionsOneAtATimeInOrder ==
  [][ /\ prepare'.status # "none" =>
           LET p == prepare'
           IN  /\ Len(p.sent) - Len(p.received) \in {0, 1}
               /\ (p.status = "waiting") = (Len(p.sent) = Len(p.received) + 1)
               /\ Len(p.sent) <= Len(p.chunks)
               /\ \A k \in 1..Len(p.sent) :
                    p.sent[k] = IF Len(p.chunks) = 1 THEN p.text ELSE p.chunks[k]
      /\ (IssuesRequest /\ Preparing) =>
           /\ Len(prepare.received) = Len(prepare.sent)
           /\ Len(prepare'.sent) = Len(prepare.sent) + 1
      /\ (PrepareReturns /\ Len(prepare.chunks) > 1) =>
           /\ Len(prepare.received) = Len(prepare.chunks)
           /\ content' = Join(TrimAll(prepare.received), BlankLine) ]_vars

\* A prepare of two sections has returned "x" for the first and "y" for the
\* second.
C15_TwoSectionsReassembled ==
  /\ ~Preparing
  /\ LastMessage = Message("assistant", "Document prepared successfully")
  /\ content = <<"x", NL, NL, "y">>

-----------------------------------------------------------------------------
(* Properties of replacing the document *)

HoldsVersionOf(versions, text) ==
  \E k \in 1..Len(versions) : versions[k].content = text

\* C16: whenever the text a prepare returns replaces the document, the
\* content that is overwritten is the content of a version of the ledger.
C16_OverwrittenContentIsInLedger ==
  [][ PrepareReturns => HoldsVersionOf(Ledger', content) ]_vars

\* The steps of the Editor's restoreVersion and of startNewDocument (the
\* only handler that calls saveContent)
RestoreStep ==
  chatHistory' = Append(chatHistory, Message("assistant", "Version restored"))
NewDocumentStep ==
  /\ localStorage'["LAST_SAVED"] # localStorage["LAST_SAVED"]
  /\ content' = SAMPLE_TEXT
  /\ chatHistory' = <<WELCOME_MESSAGE>>

\* C17: before restore-version or new-document replaces a document that is
\* neither blank nor the sample text, a version holding that document is
\* created in the ledger.
C17_ReplacedContentIsSavedFirst ==
  [][ ((RestoreStep \/ NewDocumentStep)
         /\ content # SAMPLE_TEXT /\ ~IsBlank(content)) =>
        /\ Ledger' # Ledger
        /\ Ledger'[1].content = content ]_vars

\* C18: in the state right after new-document, restore-version or a
\* successful prepare has replaced the document, no suggestion is pending.
C18_ReplacementClearsSuggestions ==
  [][ (RestoreStep \/ NewDocumentStep \/ PrepareReturns) =>
        suggestions' = <<>> ]_vars

\* A version was restored over a document with pending suggestions: the
\* analysis that found them is the last thing that happened before.
C18_RestoredOverPendingSuggestions ==
  /\ Len(chatHistory) >= 3
  /\ LastMessage = Message("assistant", "Version restored")
  /\ chatHistory[Len(chatHistory) - 1]
       = Message("assistant", "Analysis complete. I found")
  /\ analysis.status = "none"
  /\ suggestions = <<>>

-----------------------------------------------------------------------------
(* Properties of rendering *)

RECURSIVE SpansText(_)
SpansText(spans) ==
  IF spans = <<>> THEN <<>> ELSE Head(spans).text \o SpansText(Tail(spans))

Highlighted(spans) ==
  {spans[k].id : k \in {j \in 1..Len(spans) : spans[j].kind = "highlight"}}

\* T starts before S, or with S and earlier in the list
StartsEarlier(list, i, j) ==
  \/ list[i].start < list[j].start
  \/ list[i].start = list[j].start /\ i < j

\* C20: for every set of pending suggestions, overlapping ones included,
\* rendering emits every character of the document once (the spans put
\* together are the document) and highlights, of two overlapping suggestions,
\* only the one that starts first.
C20_RenderingPartitionsDocument ==
  LET spans == renderContentWithHighlights(content, suggestions)
  IN  /\ SpansText(spans) = content
      /\ \A i, j \in 1..Len(suggestions) :
           (StartsEarlier(suggestions, i, j)
              /\ Overlap(suggestions[i], suggestions[j])
              /\ suggestions[i].id \in Highlighted(spans)) =>
             suggestions[j].id \notin Highlighted(spans)

-----------------------------------------------------------------------------
(* Further properties of the planner, of the ids and of the ledger *)

RECURSIVE SumParaWords(_)
SumParaWords(paragraphs) ==
  IF paragraphs = <<>> THEN 0
  ELSE ParaWords(Head(paragraphs)) + SumParaWords(Tail(paragraphs))

\* C26: a segment of more than one paragraph holds at most W words, by the
\* planner's count of each paragraph and by the words it really holds; a
\* segment of more than W words is one paragraph that is itself longer than W.
C26_OnlyOneParagraphExceedsBudget ==
  Planned =>
    \A k \in 1..Len(prepare.chunks) :
      LET paragraphs == SplitParagraphs(prepare.chunks[k])
      IN  /\ Len(paragraphs) > 1 =>
               /\ SumParaWords(paragraphs) <= budget
               /\ WordCount(prepare.chunks[k]) <= budget
          /\ WordCount(prepare.chunks[k]) > budget =>
               /\ Len(paragraphs) = 1
               /\ WordCount(paragraphs[1]) > budget

\* A paragraph of more words than the budget is a segment of its own, next
\* to another segment.
C26_LongParagraphAlone ==
  /\ Planned
  /\ Len(prepare.chunks) >= 2
  /\ \E k \in 1..Len(prepare.chunks) : WordCount(prepare.chunks[k]) > budget

\* C24: the suggestions a successful analysis installs carry the ids
\* 1, 2, ..., k in their order, also when elements of the array were dropped.
C24_IdsAreConsecutive ==
  [][ Installs =>
        \A j \in 1..Len(suggestions') : suggestions'[j].id = j ]_vars

\* C25: in every state the ids of the ledger are strictly decreasing from
\* the newest version to the oldest, hence pairwise distinct.
C25_LedgerIdsStrictlyDecreasing ==
  \A i, j \in 1..Len(Ledger) : i < j => Ledger[i].id > Ledger[j].id

-----------------------------------------------------------------------------
(* Requests in flight *)

\* C29: isAnalyzing is true exactly while an analysis request is outstanding
\* and isPreparing exactly while a prepare request is; every completion,
\* successful or not, leaves its flag false.
C29_BusyFlagsFollowRequests ==
  /\ isAnalyzing <=> analysis.status # "none"
  /\ isPreparing <=> prepare.status # "none"

\* A preparation has failed while an analysis is running: the prepare flag
\* is down again, the analysis flag is still up.
C29_PrepareFailedDuringAnalysis ==
  /\ LastMessage = Message("assistant", "I encountered an issue during preparation")
  /\ ~isPreparing
  /\ isAnalyzing

\* C21: in every state at most one annotation request, analysis or prepare,
\* is in flight.
C21_AtMostOneRequestInFlight ==
  ~(analysis.status # "none" /\ prepare.status # "none")

\* The completion of prepareDocument: it returned or threw
PrepareCompletes == prepare.status = "responded" /\ prepare'.status = "none"

\* C22: a request that completes after a new-document reset (the document is
\* the sample text and the chat log the welcome message, which no request
\* starts from) changes neither the document nor the Suggestion Set.
C22_StaleCompletionDiscarded ==
  [][ ((AnalysisCompletes \/ PrepareCompletes)
         /\ content = SAMPLE_TEXT
         /\ chatHistory = <<WELCOME_MESSAGE>>) =>
        /\ content' = content
        /\ suggestions' = suggestions ]_vars

\* C27: apart from the new-document reset, a step changes the chat log only
\* by appending to it: the log before the step is a prefix of the log after.
C27_ChatLogAppendOnly ==
  [][ \/ chatHistory' = <<WELCOME_MESSAGE>>
      \/ /\ Len(chatHistory') >= Len(chatHistory)
         /\ SubSeq(chatHistory', 1, Len(chatHistory)) = chatHistory ]_vars

\* C30: while suggestions are pending, a step changes the document only as
\* an accept, a restore of a version, a new-document reset or the completion
\* of a preparation; typing changes it only when the Suggestion Set is empty.
C30_TypingOnlyWithoutSuggestions ==
  [][ (content' # content /\ suggestions # <<>>) =>
        \/ AcceptStep
        \/ RestoreStep
        \/ NewDocumentStep
        \/ PrepareReturns ]_vars

\* A preparation has replaced the document while the suggestions an
\* analysis had just installed were pending.
C30_ReplacedUnderPendingSuggestions ==
  /\ Len(chatHistory) >= 3
  /\ LastMessage = Message("assistant", "Document prepared successfully")
  /\ chatHistory[Len(chatHistory) - 1]
       = Message("assistant", "Analysis complete. I found")

-----------------------------------------------------------------------------
(* The debounced streams *)

\* A step in which a debounced saver is called / in which a timer fires
DebounceStep(stream) == timers'[stream].timeout # timers[stream].timeout
FlushStep(stream) ==
  /\ timers'[stream].timeout = timers[stream].timeout
  /\ timers'[stream] # timers[stream]

\* What func may leave in the storage, called with value now
Written(stream, value) ==
  {Func(stream, localStorage, value, clock, failAt).ls : failAt \in 0..1}

C28_ResetValueSurvivesPendingSave ==
  ( /\ content = SAMPLE_TEXT
    /\ effectDeps = content
    /\ timers["content"].pending = {}
    /\ localStorage["CONTENT"] # NoItem )
  => localStorage["CONTENT"] = Item(<<>>)

====
